---- MODULE Spec2Model ----
(***************************************************************************)
(* Model of the adaptive credit backend:                                   *)
(*   - the /generate-schedule handler of app.py (loader, column            *)
(*     validation, numeric normalisation, schedule loop, statistics),      *)
(*   - the per-cell numeric normalisation of app.py lines 138-143,         *)
(*   - RepaymentScheduler.generate_schedule of services/scheduler.py.      *)
(* Floating-point values are modelled as exact rationals extended with     *)
(* NaN and the two infinities; rounding error of binary floats is not      *)
(* modelled.                                                               *)
(***************************************************************************)
EXTENDS Integers, Sequences, FiniteSets, TLC

VARIABLES
    \* ---- numeric normaliser (app.py 138-143), one cell at a time
    cell, stripped, value, n_pc,
    \* ---- /generate-schedule handler (app.py 75-213)
    payload, fpos, enc_i, attempts, df, last_error, pc,
    income, expenses, available, savings,
    total_available, schedule_data, accumulated_balance, row_i,
    response,
    \* ---- RepaymentScheduler (services/scheduler.py)
    total_amount, term_months, start_day, high_season, low_season,
    month, remaining_amount, payments, schedule, s_pc

nvars == <<cell, stripped, value, n_pc>>
hvars == <<payload, fpos, enc_i, attempts, df, last_error, pc,
           income, expenses, available, savings,
           total_available, schedule_data, accumulated_balance, row_i,
           response>>
svars == <<total_amount, term_months, start_day, high_season, low_season,
           month, remaining_amount, payments, schedule, s_pc>>
vars == <<nvars, hvars, svars>>

(***************************************************************************)
(* Bounds of the model.                                                    *)
(***************************************************************************)
MaxCellLen == 3
MaxHeader == 4
MaxRows == 3
MaxTerm == 6

(***************************************************************************)
(* Extended rationals: float64 values without rounding.                    *)
(***************************************************************************)
RECURSIVE GCD(_, _)
GCD(a, b) == IF b = 0 THEN a ELSE GCD(b, a % b)

Abs(x) == IF x < 0 THEN -x ELSE x

Fin(n, d) ==
    LET g == GCD(Abs(n), Abs(d))
        s == IF d < 0 THEN -1 ELSE 1
    IN  [k |-> "fin", n |-> s * (n \div g), d |-> s * (d \div g)]

Num(i) == [k |-> "fin", n |-> i, d |-> 1]
Zero == Num(0)
NaN == [k |-> "nan", n |-> 0, d |-> 1]
PInf == [k |-> "inf", n |-> 1, d |-> 1]
NInf == [k |-> "inf", n |-> -1, d |-> 1]

IsFinite(v) == v.k \in {"fin", "sqrt"}
IsNaN(v) == v.k = "nan"
IsInf(v) == v.k = "inf"
Sign(v) == IF v.n > 0 THEN 1 ELSE IF v.n < 0 THEN -1 ELSE 0

\* a + b under IEEE rules: NaN absorbs, inf + (-inf) = NaN
EAdd(a, b) ==
    IF IsNaN(a) \/ IsNaN(b) THEN NaN
    ELSE IF IsInf(a) /\ IsInf(b) THEN (IF a.n = b.n THEN a ELSE NaN)
    ELSE IF IsInf(a) THEN a
    ELSE IF IsInf(b) THEN b
    ELSE Fin(a.n * b.d + b.n * a.d, a.d * b.d)

ENeg(a) == IF IsNaN(a) THEN NaN ELSE [a EXCEPT !.n = -a.n]

ESub(a, b) == EAdd(a, ENeg(b))

\* a * b under IEEE rules: 0 * inf = NaN
EMul(a, b) ==
    IF IsNaN(a) \/ IsNaN(b) THEN NaN
    ELSE IF IsInf(a) \/ IsInf(b)
         THEN (IF Sign(a) * Sign(b) = 0 THEN NaN
               ELSE IF Sign(a) * Sign(b) > 0 THEN PInf ELSE NInf)
    ELSE Fin(a.n * b.n, a.d * b.d)

\* a / b as numpy/pandas divide: x/0 = +-inf, 0/0 = NaN, no exception
EDiv(a, b) ==
    IF IsNaN(a) \/ IsNaN(b) THEN NaN
    ELSE IF IsInf(a) /\ IsInf(b) THEN NaN
    ELSE IF IsInf(a) THEN (IF Sign(b) < 0 THEN ENeg(a) ELSE a)
    ELSE IF IsInf(b) THEN Zero
    ELSE IF b.n = 0
         THEN (IF a.n = 0 THEN NaN ELSE IF a.n > 0 THEN PInf ELSE NInf)
    ELSE Fin(a.n * b.d, a.d * b.n)

\* a < b for values that are not NaN
ELt(a, b) ==
    IF IsInf(a) /\ IsInf(b) THEN a.n < b.n
    ELSE IF IsInf(a) THEN a.n < 0
    ELSE IF IsInf(b) THEN b.n > 0
    ELSE a.n * b.d < b.n * a.d

(***************************************************************************)
(* Numeric normaliser: str.replace(r'[^\d.-]', '') then                    *)
(* pd.to_numeric(errors='coerce').fillna(0).  A cell is a sequence of      *)
(* one-character strings.                                                  *)
(***************************************************************************)
Digits == {"0", "1", "2", "3", "4", "5", "6", "7", "8", "9"}

DigitVal(c) ==
    CASE c = "0" -> 0 [] c = "1" -> 1 [] c = "2" -> 2 [] c = "3" -> 3
      [] c = "4" -> 4 [] c = "5" -> 5 [] c = "6" -> 6 [] c = "7" -> 7
      [] c = "8" -> 8 [] c = "9" -> 9

KeptByRegex(c) == c \in Digits \cup {".", "-"}

StripAllMinus(s) == SelectSeq(s, LAMBDA c : c \in Digits \cup {"."})

\* .str.replace(r'[^\d.-]', '', regex=True): every character outside the
\* class is deleted; the class holds the digits, '.' and '-' (any position).
StripNonNumeric(s) == SelectSeq(s, KeptByRegex)

RECURSIVE Pow10(_)
Pow10(e) == IF e = 0 THEN 1 ELSE 10 * Pow10(e - 1)

\* Left-to-right scan of an unsigned decimal literal.  st is the scanner
\* state: mantissa so far, digits seen, digits after the point, point seen.
RECURSIVE ScanDecimal(_, _)
ScanDecimal(s, st) ==
    IF s = <<>> THEN st
    ELSE IF Head(s) \in Digits
         THEN ScanDecimal(Tail(s),
                [st EXCEPT !.mant = 10 * st.mant + DigitVal(Head(s)),
                           !.nd = st.nd + 1,
                           !.frac = IF st.point THEN st.frac + 1 ELSE st.frac])
    ELSE IF Head(s) = "." /\ ~st.point
         THEN ScanDecimal(Tail(s), [st EXCEPT !.point = TRUE])
    ELSE [st EXCEPT !.bad = TRUE]

\* pd.to_numeric(..., errors='coerce') on one string: the float it parses
\* to, NaN when it is no decimal literal (also for the empty string).
ToNumeric(s) ==
    LET neg == s # <<>> /\ Head(s) = "-"
        body == IF neg THEN Tail(s) ELSE s
        st == ScanDecimal(body, [mant |-> 0, nd |-> 0, frac |-> 0,
                                 point |-> FALSE, bad |-> FALSE])
    IN  IF st.bad \/ st.nd = 0 THEN NaN
        ELSE Fin(IF neg THEN -st.mant ELSE st.mant, Pow10(st.frac))

\* .fillna(0)
FillNa0(v) == IF IsNaN(v) THEN Zero ELSE v

NormalizeCell(s) == FillNa0(ToNumeric(StripNonNumeric(s)))

Alphabet == {"0", "1", "2", ".", "-", "$"}

RECURSIVE SeqsUpTo(_, _)
SeqsUpTo(S, n) ==
    IF n = 0 THEN {<<>>}
    ELSE LET shorter == SeqsUpTo(S, n - 1)
         IN  shorter \cup {Append(q, c) : q \in shorter, c \in S}

CellTexts == SeqsUpTo(Alphabet, MaxCellLen)

HandlerIdle ==
    /\ payload = [header |-> <<>>, body |-> <<>>]
    /\ fpos = 0 /\ enc_i = 1 /\ attempts = <<>>
    /\ df = [loaded |-> FALSE, columns |-> <<>>, rows |-> <<>>]
    /\ last_error = <<>> /\ pc = "idle"
    /\ income = <<>> /\ expenses = <<>> /\ available = <<>> /\ savings = <<>>
    /\ total_available = Zero /\ schedule_data = <<>>
    /\ accumulated_balance = Zero /\ row_i = 0
    /\ response = [kind |-> "none"]

SchedIdle ==
    /\ total_amount = Zero /\ term_months = 1
    /\ start_day = [year |-> 2024, day |-> 0]
    /\ high_season = {} /\ low_season = {}
    /\ month = 0 /\ remaining_amount = Zero /\ payments = <<>>
    /\ schedule = <<>>
    /\ s_pc = "idle"

NormIdle ==
    /\ cell = <<>> /\ stripped = <<>> /\ value = Zero /\ n_pc = "idle"

InitNorm ==
    /\ cell \in CellTexts
    /\ stripped = <<>> /\ value = Zero /\ n_pc = "raw"
    /\ HandlerIdle /\ SchedIdle

\* app.py 138: the column is replaced by its stripped text
NormStrip ==
    /\ n_pc = "raw"
    /\ stripped' = StripNonNumeric(cell)
    /\ n_pc' = "stripped"
    /\ UNCHANGED <<cell, value, hvars, svars>>

\* app.py 142: the column is replaced by its numeric value, NaN filled by 0
NormParse ==
    /\ n_pc = "stripped"
    /\ value' = FillNa0(ToNumeric(stripped))
    /\ n_pc' = "done"
    /\ UNCHANGED <<cell, stripped, hvars, svars>>

NextNorm == NormStrip \/ NormParse

SpecNorm == InitNorm /\ [][NextNorm]_vars


(***************************************************************************)
(* format_float and the pandas reductions used by the handler.             *)
(***************************************************************************)
\* format_float (app.py 25-32): pd.isna(value) or np.isnan(value) gives 0.0;
\* every other value, the infinities included, is returned as float(value).
FormatFloat(v) == IF IsNaN(v) THEN Zero ELSE v

NotNaN(v) == ~IsNaN(v)

RECURSIVE FoldAdd(_)
FoldAdd(s) == IF s = <<>> THEN Zero ELSE EAdd(Head(s), FoldAdd(Tail(s)))

\* Series.sum(): NaN entries are skipped
SeriesSum(s) == FoldAdd(SelectSeq(s, NotNaN))

\* Series.mean(): NaN entries are skipped, NaN when nothing is left
SeriesMean(s) ==
    LET nn == SelectSeq(s, NotNaN)
    IN  IF nn = <<>> THEN NaN ELSE EDiv(FoldAdd(nn), Num(Len(nn)))

RECURSIVE Insert(_, _)
Insert(x, s) ==
    IF s = <<>> THEN <<x>>
    ELSE IF ELt(Head(s), x) THEN <<Head(s)>> \o Insert(x, Tail(s))
    ELSE <<x>> \o s

RECURSIVE SortAsc(_)
SortAsc(s) == IF s = <<>> THEN <<>> ELSE Insert(Head(s), SortAsc(Tail(s)))

\* Series.median() of a series without NaN
SeriesMedian(s) ==
    LET o == SortAsc(s)
        n == Len(o)
    IN  IF n = 0 THEN NaN
        ELSE IF n % 2 = 1 THEN o[(n + 1) \div 2]
        ELSE EDiv(EAdd(o[n \div 2], o[n \div 2 + 1]), Num(2))

\* the non-negative square root of a finite non-negative value, kept exact
SqrtV(v) == IF v.n = 0 THEN Zero ELSE [k |-> "sqrt", n |-> v.n, d |-> v.d]

\* Series.std(): sample standard deviation (ddof = 1), NaN for one value
SeriesStd(s) ==
    LET n == Len(s)
        m == SeriesMean(s)
        sq == [i \in 1..n |-> EMul(ESub(s[i], m), ESub(s[i], m))]
    IN  IF n < 2 THEN NaN ELSE SqrtV(EDiv(FoldAdd(sq), Num(n - 1)))

\* Series.pct_change(): s[i] / s[i-1] - 1, NaN in the first place
PctChange(s) ==
    [i \in 1..Len(s) |->
        IF i = 1 THEN NaN ELSE ESub(EDiv(s[i], s[i - 1]), Num(1))]

SeriesMax(s) == CHOOSE x \in {s[i] : i \in 1..Len(s)} :
                    \A j \in 1..Len(s) : ~ELt(x, s[j])
SeriesMin(s) == CHOOSE x \in {s[i] : i \in 1..Len(s)} :
                    \A j \in 1..Len(s) : ~ELt(s[j], x)

IdxMaxLast(s) == CHOOSE i \in 1..Len(s) :
    /\ \A j \in 1..Len(s) : ~ELt(s[i], s[j])
    /\ \A j \in (i + 1)..Len(s) : ELt(s[j], s[i])

\* Series.idxmax(): the label of the first occurrence of the maximum
IdxMax(s) == CHOOSE i \in 1..Len(s) :
    /\ \A j \in 1..Len(s) : ~ELt(s[i], s[j])
    /\ \A j \in 1..(i - 1) : ELt(s[j], s[i])

\* Series.idxmin(): the label of the first occurrence of the minimum
IdxMin(s) == CHOOSE i \in 1..Len(s) :
    /\ \A j \in 1..Len(s) : ~ELt(s[j], s[i])
    /\ \A j \in 1..(i - 1) : ELt(s[i], s[j])

\* (last / first - 1) * 100, app.py 53 and 59
Growth(s) == EMul(ESub(EDiv(s[Len(s)], s[1]), Num(1)), Num(100))

\* calculate_trends (app.py 34-44)
calculate_trends(inc, exp, av) ==
    [income_trend |-> FormatFloat(EMul(SeriesMean(PctChange(inc)), Num(100))),
     expense_trend |-> FormatFloat(EMul(SeriesMean(PctChange(exp)), Num(100))),
     savings_rate |->
        FormatFloat(EMul(EDiv(SeriesSum(av), SeriesSum(inc)), Num(100)))]

\* calculate_monthly_stats (app.py 46-68); months is the Month column
calculate_monthly_stats(inc, exp, av, months) ==
    [income_stats |->
        [mean |-> FormatFloat(SeriesMean(inc)),
         median |-> FormatFloat(SeriesMedian(inc)),
         std |-> FormatFloat(SeriesStd(inc)),
         growth |-> FormatFloat(Growth(inc))],
     expense_stats |->
        [mean |-> FormatFloat(SeriesMean(exp)),
         median |-> FormatFloat(SeriesMedian(exp)),
         std |-> FormatFloat(SeriesStd(exp)),
         growth |-> FormatFloat(Growth(exp))],
     savings_stats |->
        [mean |-> FormatFloat(SeriesMean(av)),
         median |-> FormatFloat(SeriesMedian(av)),
         std |-> FormatFloat(SeriesStd(av)),
         best_month |-> months[IdxMax(av)],
         worst_month |-> months[IdxMin(av)]]]


(***************************************************************************)
(* The /generate-schedule handler (app.py 75-213).                         *)
(* The uploaded file is a header line, a sequence of fields, followed by   *)
(* the data rows.  A header field is a required column name, another       *)
(* ASCII name, or a name made of one non-ASCII byte: 0xE9 (no valid UTF-8, *)
(* a letter in cp1251) or 0x98 (no valid UTF-8, undefined in cp1251).      *)
(***************************************************************************)
encodings == <<"utf-8", "utf-8-sig", "cp1251">>

required_columns == <<"Month", "Date", "Total Income", "Fixed Expenses">>

HeaderTokens == {"Month", "Date", "Total Income", "Fixed Expenses",
                 "Other", "xE9", "x98"}

Periods == {[Month |-> "Jan", Date |-> "2024-01-31"],
            [Month |-> "Feb", Date |-> "2024-02-29"]}
IncomeTexts == {<<"0">>, <<"$", "2">>}
ExpenseTexts == {<<>>, <<"1">>, <<"3">>}

RowSet == {[Month |-> p.Month, Date |-> p.Date, inc |-> i, exp |-> e] :
              p \in Periods, i \in IncomeTexts, e \in ExpenseTexts}

SampleRow == [Month |-> "Jan", Date |-> "2024-01-31",
              inc |-> <<"$", "2">>, exp |-> <<"1">>]

EmptyBytes == [header |-> <<>>, body |-> <<>>]

\* the uploads the model draws: every header up to MaxHeader fields over a
\* sample body, and the well-formed header over every body up to MaxRows
Payloads ==
    {[header |-> h, body |-> b] :
        h \in SeqsUpTo(HeaderTokens, MaxHeader) \ {<<>>},
        b \in {<<>>, <<SampleRow>>}}
    \cup {EmptyBytes}
    \cup {[header |-> required_columns, body |-> b] :
            b \in SeqsUpTo(RowSet, MaxRows)}

NoDf == [loaded |-> FALSE, columns |-> <<>>, rows |-> <<>>]

InitHandler ==
    /\ payload \in Payloads
    /\ fpos = 0 /\ enc_i = 1 /\ attempts = <<>> /\ df = NoDf
    /\ last_error = <<>> /\ pc = "load"
    /\ income = <<>> /\ expenses = <<>> /\ available = <<>> /\ savings = <<>>
    /\ total_available = Zero /\ schedule_data = <<>>
    /\ accumulated_balance = Zero /\ row_i = 0
    /\ response = [kind |-> "none"]
    /\ NormIdle /\ SchedIdle

\* file.read(): the bytes from the file pointer to the end of the stream
FileRead(p, pos) == IF pos = 0 THEN p ELSE EmptyBytes
EndOfFile == 1

InvalidBytes(enc) == IF enc = "cp1251" THEN {"x98"} ELSE {"xE9", "x98"}

\* bytes.decode(encoding) raises UnicodeDecodeError on an invalid byte
DecodeOk(enc, bytes) ==
    \A i \in 1..Len(bytes.header) : bytes.header[i] \notin InvalidBytes(enc)

DecodeText(enc, bytes) ==
    [header |-> [i \in 1..Len(bytes.header) |->
                    IF bytes.header[i] = "xE9" THEN "U+0439"
                    ELSE bytes.header[i]],
     body |-> bytes.body]

\* pd.read_csv(io.StringIO(text)) raises EmptyDataError without a header
ReadCsvOk(text) == text.header # <<>>

ReadCsv(text) == [loaded |-> TRUE, columns |-> text.header, rows |-> text.body]

\* the file pointer after line 104-105: file.seek(0) runs only when
\* read().decode() did not raise; otherwise the pointer stays at the end
PointerAfterAttempt(ok) == IF ok THEN 0 ELSE EndOfFile

\* one iteration of the encoding loop whose decode raises (app.py 102-104,
\* 113-115)
LoadDecodeError ==
    /\ pc = "load" /\ enc_i <= Len(encodings)
    /\ LET enc == encodings[enc_i]
           content == FileRead(payload, fpos)
       IN  /\ ~DecodeOk(enc, content)
           /\ fpos' = PointerAfterAttempt(FALSE)
           /\ last_error' = <<"UnicodeDecodeError", enc>>
           /\ attempts' = Append(attempts,
                 [encoding |-> enc, content |-> content, outcome |-> "decode"])
    /\ enc_i' = enc_i + 1
    /\ UNCHANGED <<payload, df, pc, income, expenses, available, savings,
                   total_available, schedule_data, accumulated_balance,
                   row_i, response, nvars, svars>>

\* one iteration whose decode succeeds and whose read_csv raises
\* (app.py 102-109, 113-115)
LoadParseError ==
    /\ pc = "load" /\ enc_i <= Len(encodings)
    /\ LET enc == encodings[enc_i]
           content == FileRead(payload, fpos)
       IN  /\ DecodeOk(enc, content)
           /\ ~ReadCsvOk(DecodeText(enc, content))
           /\ fpos' = PointerAfterAttempt(TRUE)
           /\ last_error' = <<"EmptyDataError", "No columns to parse from file">>
           /\ attempts' = Append(attempts,
                 [encoding |-> enc, content |-> content, outcome |-> "parse"])
    /\ enc_i' = enc_i + 1
    /\ UNCHANGED <<payload, df, pc, income, expenses, available, savings,
                   total_available, schedule_data, accumulated_balance,
                   row_i, response, nvars, svars>>

\* one iteration that decodes and parses: df is set and the loop is left
\* (app.py 102-112)
LoadSuccess ==
    /\ pc = "load" /\ enc_i <= Len(encodings)
    /\ LET enc == encodings[enc_i]
           content == FileRead(payload, fpos)
       IN  /\ DecodeOk(enc, content)
           /\ ReadCsvOk(DecodeText(enc, content))
           /\ fpos' = PointerAfterAttempt(TRUE)
           /\ df' = ReadCsv(DecodeText(enc, content))
           /\ attempts' = Append(attempts,
                 [encoding |-> enc, content |-> content, outcome |-> "ok"])
    /\ pc' = "validate"
    /\ UNCHANGED <<payload, enc_i, last_error, income, expenses, available,
                   savings, total_available, schedule_data,
                   accumulated_balance, row_i, response, nvars, svars>>

\* the loop ended with df None (app.py 117-122)
LoadFail ==
    /\ pc = "load" /\ enc_i > Len(encodings)
    /\ ~df.loaded
    /\ response' = [kind |-> "error", status |-> 400,
                    error |-> <<"Error reading CSV file", last_error>>]
    /\ pc' = "done"
    /\ UNCHANGED <<payload, fpos, enc_i, attempts, df, last_error, income,
                   expenses, available, savings, total_available,
                   schedule_data, accumulated_balance, row_i, nvars, svars>>

InColumns(col, columns) == \E i \in 1..Len(columns) : columns[i] = col

FirstMissingOnly(columns) ==
    LET all == SelectSeq(required_columns, LAMBDA c : ~InColumns(c, columns))
    IN  IF all = <<>> THEN <<>> ELSE <<Head(all)>>

\* [col for col in required_columns if col not in df.columns]
missing_columns(columns) ==
    SelectSeq(required_columns, LAMBDA c : ~InColumns(c, columns))

\* app.py 124-130, a required column is absent
ValidateFail ==
    /\ pc = "validate"
    /\ missing_columns(df.columns) # <<>>
    /\ response' = [kind |-> "error", status |-> 400,
                    error |-> <<"Missing required columns",
                                missing_columns(df.columns)>>]
    /\ pc' = "done"
    /\ UNCHANGED <<payload, fpos, enc_i, attempts, df, last_error, income,
                   expenses, available, savings, total_available,
                   schedule_data, accumulated_balance, row_i, nvars, svars>>

\* app.py 124-150: validation passes and the two numeric columns are
\* normalised cell by cell
ValidateAndNormalize ==
    /\ pc = "validate"
    /\ missing_columns(df.columns) = <<>>
    /\ income' = [i \in 1..Len(df.rows) |-> NormalizeCell(df.rows[i].inc)]
    /\ expenses' = [i \in 1..Len(df.rows) |-> NormalizeCell(df.rows[i].exp)]
    /\ pc' = "derive"
    /\ UNCHANGED <<payload, fpos, enc_i, attempts, df, last_error, available,
                   savings, total_available, schedule_data,
                   accumulated_balance, row_i, response, nvars, svars>>

\* (Available Money / Total Income) * 100, app.py 154
SavingsRate(av, inc) == EMul(EDiv(av, inc), Num(100))

\* app.py 152-162
Derive ==
    /\ pc = "derive"
    /\ LET av == [i \in 1..Len(income) |-> ESub(income[i], expenses[i])]
       IN  /\ available' = av
           /\ savings' = [i \in 1..Len(income) |-> SavingsRate(av[i], income[i])]
           /\ total_available' = FormatFloat(SeriesSum(av))
    /\ schedule_data' = <<>>
    /\ accumulated_balance' = Zero
    /\ row_i' = 0
    /\ pc' = "loop"
    /\ UNCHANGED <<payload, fpos, enc_i, attempts, df, last_error, income,
                   expenses, response, nvars, svars>>

RECURSIVE Reverse(_)
Reverse(s) == IF s = <<>> THEN <<>> ELSE Append(Reverse(Tail(s)), Head(s))

IterRowsReversed(d) == Reverse(d.rows)

\* df.iterrows(): the rows of the frame in index order, app.py 164
IterRows(d) == d.rows

AccumulateOverwrite(acc, am) == am

\* accumulated_balance += available_money, app.py 166
Accumulate(acc, am) == EAdd(acc, am)

\* one iteration of for _, row in df.iterrows() (app.py 164-172)
ScheduleRow ==
    /\ pc = "loop"
    /\ row_i < Len(df.rows)
    /\ LET i == row_i + 1
           available_money == FormatFloat(available[i])
           acc == Accumulate(accumulated_balance, available_money)
       IN  /\ accumulated_balance' = acc
           /\ schedule_data' = Append(schedule_data,
                 [date |-> IterRows(df)[i].Date,
                  payment |-> available_money,
                  remaining_balance |-> FormatFloat(acc),
                  savings_rate |-> FormatFloat(savings[i])])
           /\ row_i' = i
    /\ UNCHANGED <<payload, fpos, enc_i, attempts, df, last_error, pc, income,
                   expenses, available, savings, total_available, response,
                   nvars, svars>>

Months == [i \in 1..Len(df.rows) |-> df.rows[i].Month]

\* the metrics object, app.py 174-191
Metrics ==
    [total_amount |-> total_available,
     average_payment |-> FormatFloat(SeriesMean(available)),
     min_payment |-> FormatFloat(SeriesMin(available)),
     max_payment |-> FormatFloat(SeriesMax(available)),
     completion_date |-> df.rows[Len(df.rows)].Date,
     total_months |-> Len(df.rows),
     total_income |-> FormatFloat(SeriesSum(income)),
     total_expenses |-> FormatFloat(SeriesSum(expenses)),
     average_savings_rate |-> FormatFloat(SeriesMean(savings)),
     trends |-> calculate_trends(income, expenses, available),
     monthly_stats |->
        calculate_monthly_stats(income, expenses, available, Months)]

\* app.py 174-204 for a dataset with at least one row
Respond ==
    /\ pc = "loop"
    /\ row_i = Len(df.rows)
    /\ Len(df.rows) > 0
    /\ response' = [kind |-> "ok", status |-> 200,
                    metrics |-> Metrics, data |-> schedule_data]
    /\ pc' = "done"
    /\ UNCHANGED <<payload, fpos, enc_i, attempts, df, last_error, income,
                   expenses, available, savings, total_available,
                   schedule_data, accumulated_balance, row_i, nvars, svars>>

\* a dataset without rows: iloc[-1] in calculate_monthly_stats (app.py 53)
\* raises IndexError, caught at app.py 206-213
RespondInternalError ==
    /\ pc = "loop"
    /\ row_i = Len(df.rows)
    /\ Len(df.rows) = 0
    /\ response' = [kind |-> "error", status |-> 500,
                    error |-> <<"Internal server error", "IndexError">>]
    /\ pc' = "done"
    /\ UNCHANGED <<payload, fpos, enc_i, attempts, df, last_error, income,
                   expenses, available, savings, total_available,
                   schedule_data, accumulated_balance, row_i, nvars, svars>>

Next ==
    \/ LoadDecodeError
    \/ LoadParseError
    \/ LoadSuccess
    \/ LoadFail
    \/ ValidateFail
    \/ ValidateAndNormalize
    \/ Derive
    \/ ScheduleRow
    \/ Respond
    \/ RespondInternalError

Init == InitHandler

Spec == Init /\ [][Next]_vars


(***************************************************************************)
(* Properties of the handler.                                              *)
(***************************************************************************)
Succeeded == pc = "done" /\ response.kind = "ok"

RECURSIVE PaymentsUpTo(_, _)
PaymentsUpTo(rows, k) ==
    IF k = 0 THEN Zero ELSE EAdd(PaymentsUpTo(rows, k - 1), rows[k].payment)

\* C1: every schedule row's remaining_balance is the sum of the payments
\* (Total Income - Fixed Expenses) of the rows up to and including it, and
\* the last row's remaining_balance equals metrics.total_amount, the sum of
\* available money over all rows.
C1_RunningBalance ==
    /\ \A k \in 1..Len(schedule_data) :
          /\ schedule_data[k].payment = ESub(income[k], expenses[k])
          /\ schedule_data[k].remaining_balance = PaymentsUpTo(schedule_data, k)
    /\ Succeeded =>
          LET n == Len(response.data)
          IN  /\ n = Len(payload.body)
              /\ response.data[n].remaining_balance = response.metrics.total_amount
              /\ response.metrics.total_amount = PaymentsUpTo(response.data, n)

C1_Witness ==
    /\ Succeeded
    /\ Len(response.data) = 3
    /\ response.data[2].payment.n < 0
    /\ response.data[3].remaining_balance # response.data[3].payment
    /\ response.data[3].remaining_balance # Zero

PassedValidation ==
    /\ pc = "done"
    /\ df.loaded
    /\ \A c \in {"Month", "Date", "Total Income", "Fixed Expenses"} :
          \E i \in 1..Len(payload.header) : payload.header[i] = c

C3_SavingsRateGuard ==
    Succeeded =>
        \A i \in 1..Len(response.data) :
            /\ income[i].n # 0 =>
                  response.data[i].savings_rate =
                      EMul(EDiv(ESub(income[i], expenses[i]), income[i]), Num(100))
            /\ income[i].n = 0 => response.data[i].savings_rate = Zero
            /\ IsFinite(response.data[i].savings_rate)

\* C4: growth is (last / first - 1) * 100 when the first value of the
\* series is non-zero and 0.0 whenever the first value is 0, for the income
\* series and for the expense series.
C4_GrowthGuard ==
    Succeeded =>
        LET n == Len(income)
            claimed(s) == IF s[1].n = 0 THEN Zero
                          ELSE EMul(ESub(EDiv(s[n], s[1]), Num(1)), Num(100))
        IN  /\ response.metrics.monthly_stats.income_stats.growth = claimed(income)
            /\ response.metrics.monthly_stats.expense_stats.growth = claimed(expenses)

NumericFields(r) ==
    LET m == r.metrics
        st == m.monthly_stats
    IN  {r.data[i].payment : i \in 1..Len(r.data)}
        \cup {r.data[i].remaining_balance : i \in 1..Len(r.data)}
        \cup {r.data[i].savings_rate : i \in 1..Len(r.data)}
        \cup {m.total_amount, m.average_payment, m.min_payment, m.max_payment,
              m.total_income, m.total_expenses, m.average_savings_rate,
              m.trends.income_trend, m.trends.expense_trend,
              m.trends.savings_rate}
        \cup {st.income_stats.mean, st.income_stats.median,
              st.income_stats.std, st.income_stats.growth,
              st.expense_stats.mean, st.expense_stats.median,
              st.expense_stats.std, st.expense_stats.growth,
              st.savings_stats.mean, st.savings_stats.median,
              st.savings_stats.std}

\* C5: every numeric field of a successful response is a finite number;
\* a value computed as NaN or +/-infinity is reported as 0.0.
C5_AllFinite ==
    Succeeded => \A v \in NumericFields(response) : IsFinite(v)


\* what decoding and parsing the complete payload under encoding j gives
FullDecodes(j) == \A i \in 1..Len(payload.header) :
    payload.header[i] \notin
        (IF encodings[j] = "cp1251" THEN {"x98"} ELSE {"xE9", "x98"})
FullParses(j) == FullDecodes(j) /\ payload.header # <<>>
FullColumns(j) ==
    [i \in 1..Len(payload.header) |->
        IF payload.header[i] = "xE9" THEN "U+0439" ELSE payload.header[i]]

\* C6: the encodings utf-8, utf-8-sig, cp1251 are tried in that order, each
\* attempt reading the complete payload from its start (also after an
\* attempt whose decode failed); the loader stops at the first encoding under
\* which the full payload decodes and parses, the dataset being the one
\* parsed under it, and fails with 'Error reading CSV file' only if none
\* does, carrying the message of the last failed attempt.
C6_LoaderAttempts ==
    /\ \A j \in 1..Len(attempts) :
          /\ attempts[j].encoding = encodings[j]
          /\ attempts[j].content = payload
          /\ attempts[j].outcome = "ok" <=> FullParses(j)
          /\ \A e \in 1..(j - 1) : ~FullParses(e)
    /\ df.loaded =>
          /\ FullParses(Len(attempts))
          /\ df.columns = FullColumns(Len(attempts))
          /\ df.rows = payload.body
    /\ (pc = "done" /\ ~df.loaded) =>
          /\ \A e \in 1..Len(encodings) : ~FullParses(e)
          /\ response.kind = "error"
          /\ response.error[1] = "Error reading CSV file"
          /\ response.error[2] = last_error
          /\ last_error[1] =
                (IF attempts[Len(attempts)].outcome = "decode"
                 THEN "UnicodeDecodeError" ELSE "EmptyDataError")

\* the outcome of the loader alone: the same as if every attempt had read
\* the complete payload
C6_LoaderOutcome ==
    /\ df.loaded =>
          /\ FullParses(Len(attempts))
          /\ \A e \in 1..(Len(attempts) - 1) : ~FullParses(e)
          /\ df.columns = FullColumns(Len(attempts))
          /\ df.rows = payload.body
    /\ (pc = "done" /\ ~df.loaded) =>
          /\ \A e \in 1..Len(encodings) : ~FullParses(e)
          /\ response.kind = "error"
          /\ response.error = <<"Error reading CSV file", last_error>>

MissingSet ==
    {c \in {"Month", "Date", "Total Income", "Fixed Expenses"} :
        \A i \in 1..Len(df.columns) : df.columns[i] # c}

\* C7: a decoded CSV whose header lacks a non-empty set M of the required
\* columns fails with a MissingColumns error naming exactly the columns of
\* M, and the outcome is an error object only: no schedule row and no
\* metric is computed or returned.
C7_MissingColumns ==
    (pc = "done" /\ df.loaded /\ MissingSet # {}) =>
        /\ response.kind = "error"
        /\ response.status = 400
        /\ response.error[1] = "Missing required columns"
        /\ {response.error[2][i] : i \in 1..Len(response.error[2])} = MissingSet
        /\ Len(response.error[2]) = Cardinality(MissingSet)
        /\ DOMAIN response = {"kind", "status", "error"}
        /\ schedule_data = <<>>
        /\ income = <<>> /\ expenses = <<>> /\ available = <<>>

C7_Witness ==
    /\ pc = "done"
    /\ df.loaded
    /\ payload.body # <<>>
    /\ MissingSet = {"Date", "Fixed Expenses"}
    /\ response.kind = "error"
    /\ response.error[2] = <<"Date", "Fixed Expenses">>

\* C8: best_month is the Month label of the first row whose available_money
\* equals the maximum over all rows, worst_month that of the first row
\* whose available_money equals the minimum; on a tie the earliest row wins.
C8_BestWorstMonth ==
    Succeeded =>
        LET n == Len(payload.body)
            av == [i \in 1..n |-> ESub(income[i], expenses[i])]
            isMax(i) == \A j \in 1..n : ~ELt(av[i], av[j])
            isMin(i) == \A j \in 1..n : ~ELt(av[j], av[i])
            stats == response.metrics.monthly_stats.savings_stats
        IN  /\ \E i \in 1..n :
                  /\ isMax(i)
                  /\ \A j \in 1..(i - 1) : ~isMax(j)
                  /\ stats.best_month = payload.body[i].Month
            /\ \E i \in 1..n :
                  /\ isMin(i)
                  /\ \A j \in 1..(i - 1) : ~isMin(j)
                  /\ stats.worst_month = payload.body[i].Month

C8_Witness ==
    /\ Succeeded
    /\ Len(payload.body) = 3
    /\ available[1] = available[3]
    /\ ELt(available[2], available[1])
    /\ payload.body[1].Month = "Feb"
    /\ payload.body[3].Month = "Jan"
    /\ response.metrics.monthly_stats.savings_stats.best_month = "Feb"
    /\ response.metrics.monthly_stats.savings_stats.worst_month = "Jan"


(***************************************************************************)
(* Properties of the numeric normaliser.                                   *)
(***************************************************************************)
NumericChars == {"0", "1", "2", "3", "4", "5", "6", "7", "8", "9", "."}

\* the text left when every character is removed that is not a digit, a
\* decimal point or a leading minus sign: a minus sign is kept only when
\* nothing has been kept before it
RECURSIVE KeepLeadingMinus(_, _)
KeepLeadingMinus(s, kept) ==
    IF s = <<>> THEN kept
    ELSE IF Head(s) \in NumericChars \/ (Head(s) = "-" /\ kept = <<>>)
         THEN KeepLeadingMinus(Tail(s), Append(kept, Head(s)))
    ELSE KeepLeadingMinus(Tail(s), kept)

\* the text left when every character but digits, points and minus signs
\* (in any position) is removed
KeepEveryMinus(s) == SelectSeq(s, LAMBDA c : c \in NumericChars \cup {"-"})

Unsigned(s) == IF s # <<>> /\ s[1] = "-" THEN SubSeq(s, 2, Len(s)) ELSE s

\* s is an optional minus sign followed by digits with at most one decimal
\* point among them, and holds at least one digit
IsDecimalLiteral(s) ==
    LET b == Unsigned(s)
    IN  /\ \A i \in 1..Len(b) : b[i] \in NumericChars
        /\ Cardinality({i \in 1..Len(b) : b[i] = "."}) <= 1
        /\ \E i \in 1..Len(b) : b[i] # "."

RECURSIVE PlaceSum(_, _, _)
PlaceSum(b, i, p) ==
    IF i > Len(b) THEN Zero
    ELSE IF i = p THEN PlaceSum(b, i + 1, p)
    ELSE LET dv == CHOOSE v \in 0..9 :
                      b[i] = <<"0", "1", "2", "3", "4", "5", "6", "7", "8", "9">>[v + 1]
             term == IF i < p THEN Num(dv * Pow10(p - 1 - i))
                     ELSE EDiv(Num(dv), Num(Pow10(i - p)))
         IN  EAdd(term, PlaceSum(b, i + 1, p))

\* the number a decimal literal denotes: the sum of its digits by place
LiteralValue(s) ==
    LET b == Unsigned(s)
        p == IF \E i \in 1..Len(b) : b[i] = "."
             THEN CHOOSE i \in 1..Len(b) : b[i] = "."
             ELSE Len(b) + 1
        v == PlaceSum(b, 1, p)
    IN  IF Unsigned(s) # s THEN ENeg(v) ELSE v

ValueOrZero(s) == IF IsDecimalLiteral(s) THEN LiteralValue(s) ELSE Zero

IsLeap(y) == y % 4 = 0 /\ (y % 100 # 0 \/ y % 400 = 0)

DaysInYear(y) == IF IsLeap(y) THEN 366 ELSE 365

DaysInMonth(y, m) ==
    IF m = 2 THEN (IF IsLeap(y) THEN 29 ELSE 28)
    ELSE IF m \in {4, 6, 9, 11} THEN 30 ELSE 31

RECURSIVE MonthOfYearDay(_, _, _)
MonthOfYearDay(y, d, m) ==
    IF d < DaysInMonth(y, m) THEN [year |-> y, month |-> m, day |-> d + 1]
    ELSE MonthOfYearDay(y, d - DaysInMonth(y, m), m + 1)

\* the calendar date d days after 1 January of year y
RECURSIVE DateOf(_, _)
DateOf(y, d) ==
    IF d >= DaysInYear(y) THEN DateOf(y + 1, d - DaysInYear(y))
    ELSE MonthOfYearDay(y, d, 1)

\* current_date + timedelta(days=30 * month), scheduler.py 33
PaymentDate(start, m) == DateOf(start.year, start.day + 30 * m)

\* round(x, 2) for x >= 0, ties to even
Round2(x) ==
    LET num == x.n * 100
        q == num \div x.d
        r == num % x.d
        up == 2 * r > x.d \/ (2 * r = x.d /\ q % 2 = 1)
    IN  Fin(IF up THEN q + 1 ELSE q, 100)

Uncapped(a, b) == a

\* min(payment, remaining_amount), scheduler.py 45
EMin(a, b) == IF ELt(b, a) THEN b ELSE a

HighFactor == Fin(6, 5)
LowFactor == Fin(4, 5)

\* scheduler.py 36-42: the payment before it is capped
SeasonalPayment(base, m, high, low) ==
    IF m \in high THEN EMul(base, HighFactor)
    ELSE IF m \in low THEN EMul(base, LowFactor)
    ELSE base

StartYears == {2023, 2024}
StartDates == {[year |-> y, day |-> d] :
                  y \in StartYears, d \in 0..365} \ {[year |-> 2023, day |-> 365]}
SeasonSets == {{}, {1, 3}, {2, 4}, 1..12}
Totals == {Num(100), Num(12000)}

InitSched ==
    /\ total_amount \in Totals
    /\ term_months \in 1..MaxTerm
    /\ start_day \in StartDates
    /\ high_season \in SeasonSets
    /\ low_season \in SeasonSets
    /\ month = 0
    /\ remaining_amount = total_amount
    /\ payments = <<>>
    /\ schedule = <<>>
    /\ s_pc = "loop"
    /\ NormIdle /\ HandlerIdle

\* one iteration of for month in range(self.term_months), scheduler.py
\* 32-56; the schedule is returned when the range is exhausted or the loop
\* breaks
SchedIteration ==
    /\ s_pc = "loop"
    /\ month < term_months
    /\ LET base_payment == EDiv(total_amount, Num(term_months))
           payment_date == PaymentDate(start_day, month)
           month_number == payment_date.month
           payment == EMin(SeasonalPayment(base_payment, month_number,
                                           high_season, low_season),
                           remaining_amount)
           rest == ESub(remaining_amount, payment)
       IN  /\ remaining_amount' = rest
           /\ payments' = Append(payments, payment)
           /\ schedule' = Append(schedule,
                 [date |-> payment_date,
                  payment |-> Round2(payment),
                  remaining_balance |-> Round2(rest),
                  season |-> IF month_number \in high_season
                             THEN "high" ELSE "low"])
           /\ s_pc' = IF ~ELt(Zero, rest) \/ month + 1 = term_months
                      THEN "done" ELSE "loop"
    /\ month' = month + 1
    /\ UNCHANGED <<total_amount, term_months, start_day, high_season,
                   low_season, nvars, hvars>>

NextSched == SchedIteration

SpecSched == InitSched /\ [][NextSched]_vars

RECURSIVE SumPayments(_)
SumPayments(s) ==
    IF s = <<>> THEN Zero ELSE EAdd(Head(s).payment, SumPayments(Tail(s)))

\* C10: the payments of the returned records sum to total_amount within
\* 0.01, whatever the start date and the classification of the months.
C10_FullyRepaid ==
    s_pc = "done" =>
        LET diff == ESub(SumPayments(schedule), total_amount)
        IN  /\ ELt(diff, Fin(1, 100))
            /\ ELt(Fin(-1, 100), diff)


RECURSIVE SumSeq(_)
SumSeq(s) == IF s = <<>> THEN Zero ELSE EAdd(Head(s), SumSeq(Tail(s)))

\* C11: every loop iteration leaves remaining_amount >= 0, makes a payment
\* that is at most the amount remaining before it, and keeps (payments made
\* so far) + remaining_amount = total_amount; at most term_months records
\* are appended, and none once remaining_amount has reached 0.
C11_LoopInvariant ==
    [][ /\ schedule' # schedule =>
            /\ ~ELt(remaining_amount', Zero)
            /\ payments' = Append(payments, payments'[Len(payments')])
            /\ ~ELt(remaining_amount, payments'[Len(payments')])
            /\ EAdd(SumSeq(payments'), remaining_amount') = total_amount
            /\ Len(schedule') = Len(schedule) + 1
            /\ Len(schedule') <= term_months
        /\ (schedule # <<>> /\ ~ELt(Zero, remaining_amount)) =>
            schedule' = schedule
      ]_vars

\* the loan is paid off before the term ends: the fifth payment takes all
\* that remained and the loop stops with one month of the term unused
C11_Witness ==
    /\ s_pc = "done"
    /\ term_months = 6
    /\ Len(schedule) = 5
    /\ month = 5
    /\ remaining_amount = Zero
    /\ payments[5] = ESub(total_amount, SumSeq(SubSeq(payments, 1, 4)))

====
